---- MODULE Spec2Model ----
(***************************************************************************)
(* Model of the prefix tree of src/main.py (class Tree, load_words,        *)
(* give_suggestions).                                                      *)
(*                                                                         *)
(* Tree objects live in a heap: heap[i] is the object with identity i, and *)
(* _subtrees / _parent hold identities, as Python references do.  Object 1 *)
(* is the tree built by load_words, Tree(None, []).  A string is modelled  *)
(* as the sequence of its characters.                                      *)
(***************************************************************************)
EXTENDS Naturals, Sequences, FiniteSets

VARIABLES heap, pc, calls, ret, prefix, answer

vars == <<heap, pc, calls, ret, prefix, answer>>

\* ---------------------------------------------------------------- bounds
MaxLen == 3          \* longest word handed to add_word
MaxInserts == 2      \* add_word calls made by load_words

Alphabet == {"a", "b"}

None == "None"       \* Python's None as a value of _root
NoParent == 0        \* Python's None as a value of _parent

SeqsUpTo(n) == UNION {[1..k -> Alphabet] : k \in 0..n}
Words == SeqsUpTo(MaxLen) \ {<<>>}
Prefixes == SeqsUpTo(MaxLen + 1)

\* ------------------------------------------------------------- helpers
Range(s) == {s[i] : i \in 1..Len(s)}
IsPrefix(p, w) == Len(p) <= Len(w) /\ SubSeq(w, 1, Len(p)) = p
Count(w, s) == Cardinality({i \in 1..Len(s) : s[i] = w})

\* separate(string): the list of the characters of <string>
separate(string) == [index \in 1..Len(string) |-> string[index]]

\* Tree.__init__
Tree(root, subtrees) ==
    [root |-> root, subtrees |-> subtrees, parent |-> NoParent, word |-> FALSE]

\* Tree.is_empty
is_empty(h, self) == h[self].root = None

\* Tree._set_parent
set_parent(h, self, parent) == [h EXCEPT ![self].parent = parent]

\* Tree.add_child
add_child(h, self, child) ==
    set_parent([h EXCEPT ![self].subtrees = Append(@, child)], child, self)

\* list.pop(-1) leaves the list without its last element
ButLast(word) == SubSeq(word, 1, Len(word) - 1)

\* the while loop of fill: each remaining character wraps the branch so far
RECURSIVE wrap(_, _, _)
wrap(h, branch, word) ==
    IF word = <<>>
    THEN [heap |-> h, branch |-> branch]
    ELSE wrap(Append(h, Tree(word[Len(word)], <<branch>>)), Len(h) + 1,
              ButLast(word))

\* fill that also marks the node the branch is attached to
fill_marks_anchor(h, self, word) ==
    IF word = <<>>
    THEN [h EXCEPT ![self].word = TRUE]
    ELSE LET h1 == Append(h, [Tree(word[Len(word)], <<>>) EXCEPT !.word = TRUE])
             r  == wrap(h1, Len(h1), ButLast(word))
         IN  add_child([r.heap EXCEPT ![self].word = TRUE], self, r.branch)

\* Tree.fill
fill(h, self, word) ==
    IF word = <<>>
    THEN [h EXCEPT ![self].word = TRUE]
    ELSE LET h1 == Append(h, [Tree(word[Len(word)], <<>>) EXCEPT !.word = TRUE])
             r  == wrap(h1, Len(h1), ButLast(word))
         IN  add_child(r.heap, self, r.branch)

\* Tree.__eq__ compares the _root of two trees
tree_eq(a, b) == a.root = b.root

\* the membership test made with word[0] in place of word[1]
InSubtrees_first(h, self, word) ==
    \E i \in 1..Len(h[self].subtrees) :
        tree_eq(Tree(word[1], <<>>), h[h[self].subtrees[i]])

\* Tree(word[1], []) in self._subtrees   (0-based word[1] is word[2] here)
InSubtrees(h, self, word) ==
    \E i \in 1..Len(h[self].subtrees) :
        tree_eq(Tree(word[2], <<>>), h[h[self].subtrees[i]])

\* the for loop of add_word: position of the first subtree whose _root is
\* <sym>, 0 when the loop ends without finding one
FirstMatch(h, self, sym) ==
    LET S == {i \in 1..Len(h[self].subtrees) : h[h[self].subtrees[i]].root = sym}
    IN  IF S = {} THEN 0 ELSE CHOOSE i \in S : \A j \in S : i <= j

\* the recursive call made with word in place of word[1:]
Rest_whole(word) == word

\* word[1:]
Rest(word) == Tail(word)

\* Tree.add_word; the result is the heap afterwards and the value returned
RECURSIVE add_word(_, _, _)
add_word(h, self, word) ==
    IF word = <<>>
    THEN [heap |-> h, ret |-> "True"]
    ELSE IF Len(word) = 1
    THEN IF h[self].parent = NoParent
         THEN [heap |-> h, ret |-> "False"]
         ELSE [heap |-> h, ret |-> "True"]
    ELSE IF is_empty(h, self)
    THEN [heap |-> fill([h EXCEPT ![self].root = word[1]], self, Tail(word)),
          ret |-> "True"]
    ELSE IF InSubtrees(h, self, word)
    THEN LET i == FirstMatch(h, self, word[2])
         IN  IF i = 0
             THEN [heap |-> h, ret |-> "None"]
             ELSE add_word(h, h[self].subtrees[i], Rest(word))
    ELSE [heap |-> fill(h, self, Tail(word)), ret |-> "True"]

\* Tree.get_wordlist; SubWords is its loop over self._subtrees from the
\* i-th subtree on, each word prefixed by self._root
RECURSIVE get_wordlist(_, _), SubWords(_, _, _)
SubWords(h, self, i) ==
    IF i > Len(h[self].subtrees)
    THEN <<>>
    ELSE LET ws == get_wordlist(h, h[self].subtrees[i])
         IN  [k \in 1..Len(ws) |-> <<h[self].root>> \o ws[k]]
             \o SubWords(h, self, i + 1)

get_wordlist(h, self) ==
    IF is_empty(h, self)
    THEN <<>>
    ELSE IF h[self].word
    THEN <<(<<h[self].root>>)>> \o SubWords(h, self, 1)
    ELSE SubWords(h, self, 1)

\* Tree.prefixed_by; SubPrefixed is its loop over self._subtrees
RECURSIVE prefixed_by(_, _, _), SubPrefixed(_, _, _, _)
SubPrefixed(h, self, p, i) ==
    IF i > Len(h[self].subtrees)
    THEN <<>>
    ELSE LET ws == prefixed_by(h, h[self].subtrees[i], Tail(p))
         IN  [k \in 1..Len(ws) |-> <<h[self].root>> \o ws[k]]
             \o SubPrefixed(h, self, p, i + 1)

prefixed_by(h, self, p) ==
    IF p = <<>> \/ is_empty(h, self)
    THEN get_wordlist(h, self)
    ELSE IF p[1] # h[self].root
    THEN <<>>
    ELSE IF h[self].subtrees = <<>>
    THEN <<(<<h[self].root>>)>>
    ELSE SubPrefixed(h, self, p, 1)

\* ------------------------------------------------------------ the program
\* wordtree = Tree(None, []) in load_words
Init ==
    /\ heap = <<Tree(None, <<>>)>>
    /\ pc = "load"
    /\ calls = <<>>
    /\ ret = "None"
    /\ prefix = <<>>
    /\ answer = <<>>

\* one iteration of the loop of load_words
AddWord(w) ==
    /\ pc = "load"
    /\ Len(calls) < MaxInserts
    /\ LET r == add_word(heap, 1, separate(w))
       IN  heap' = r.heap /\ ret' = r.ret
    /\ calls' = Append(calls, w)
    /\ UNCHANGED <<pc, prefix, answer>>

\* give_suggestions(wordtree, string)
GiveSuggestions(string) ==
    /\ pc = "load"
    /\ prefix' = separate(string)
    /\ answer' = prefixed_by(heap, 1, separate(string))
    /\ pc' = "done"
    /\ UNCHANGED <<heap, calls, ret>>

Next ==
    \/ \E w \in Words : AddWord(w)
    \/ \E p \in Prefixes : GiveSuggestions(p)

Spec == Init /\ [][Next]_vars

\* ----------------------------------------------------------- observations
inserted == Range(calls)
Nodes == 1..Len(heap)
WordSet(h) == Range(prefixed_by(h, 1, <<>>))
TypeOK ==
    /\ pc \in {"load", "done"}
    /\ ret \in {"True", "False", "None"}
    /\ \A n \in Nodes : heap[n].root \in Alphabet \cup {None}

\* the words spelled by the root-to-node paths of the nodes whose _word is
\* True, in the subtree <self> reached along <path>
RECURSIVE Spelled(_, _, _)
Spelled(h, self, path) ==
    LET here == Append(path, h[self].root)
    IN  (IF h[self].word THEN {here} ELSE {})
        \cup UNION {Spelled(h, h[self].subtrees[i], here) :
                      i \in 1..Len(h[self].subtrees)}
Terminals(h) == IF is_empty(h, 1) THEN {} ELSE Spelled(h, 1, <<>>)

LastCall == calls[Len(calls)]
StrictPrefix(p, w) == IsPrefix(p, w) /\ p # w
\* this step is a call add_word(w)
IsAdd(w) == calls' = Append(calls, w)

\* ------------------------------------------------------------------ claims

\* C1: after any sequence of add_word calls with non-empty words,
\* prefixed_by([]) contains every inserted word, exactly once.
C1_AllInsertedOnce ==
    (pc = "done" /\ prefix = <<>>) =>
        \A W \in inserted : Count(W, answer) = 1

\* C2: for every inserted word W and every non-empty prefix P of W
\* (P = W included), prefixed_by(P) contains W.
C2_PrefixFindsWord ==
    (pc = "done" /\ prefix # <<>>) =>
        \A W \in inserted : IsPrefix(prefix, W) => W \in Range(answer)

\* C3: every word returned by prefixed_by(P) starts with P, for every P,
\* also for P longer than any stored word.
C3_OnlyPrefixed ==
    pc = "done" => \A i \in 1..Len(answer) : IsPrefix(prefix, answer[i])

\* C4: add_word of a non-empty word returns True on every reachable tree.
C4_AddWordTrue ==
    calls # <<>> => ret = "True"

\* C5: when W is a strict prefix or a strict extension of an already stored
\* word, add_word(W) makes the result set of prefixed_by([]) exactly the
\* previous result set plus W.
C5_PrefixExtensionFrame ==
    [][\A W \in Words :
          (/\ IsAdd(W)
           /\ \E V \in WordSet(heap) : StrictPrefix(W, V) \/ StrictPrefix(V, W))
          => WordSet(heap') = WordSet(heap) \cup {W}]_vars

\* C6: add_word(W) directly after add_word(W) leaves the result set of
\* prefixed_by([]) as the first call left it.
C6_Idempotent ==
    [][\A W \in Words :
          (calls # <<>> /\ LastCall = W /\ IsAdd(W))
          => WordSet(heap') = WordSet(heap)]_vars

C6_Witness ==
    /\ Len(calls) >= 2
    /\ calls[Len(calls)] = calls[Len(calls) - 1]
    /\ LastCall \in WordSet(heap)

\* C7: is_empty() is true on the new tree, false after the first add_word of
\* any non-empty word (a one-character word included) and false ever after.
C7_EmptyUntilFirstAdd ==
    is_empty(heap, 1) <=> calls = <<>>

\* the documented precondition of add_word, word[0] == FIRST, for the words
\* that reach the tree (a one-character word changes nothing)
SameFirst ==
    \A V \in inserted : \A W \in inserted :
        (Len(V) >= 2 /\ Len(W) >= 2) => V[1] = W[1]

TerminalsInserted ==
    /\ Terminals(heap) \subseteq inserted
    /\ WordSet(heap) \subseteq inserted

C9_ParentLinks ==
    /\ \A n \in Nodes : \A i \in 1..Len(heap[n].subtrees) :
           heap[heap[n].subtrees[i]].parent = n
    /\ \A n \in Nodes : heap[n].parent = NoParent => n = 1

\* C10: no two children in the same node's _subtrees have the same _root.
C10_SiblingsDistinct ==
    \A n \in Nodes : \A i \in 1..Len(heap[n].subtrees) :
        \A j \in 1..Len(heap[n].subtrees) :
            i # j => heap[heap[n].subtrees[i]].root # heap[heap[n].subtrees[j]].root

C10_Witness ==
    \E n \in Nodes :
        /\ Len(heap[n].subtrees) >= 2
        /\ n # 1
====
